---- MODULE Spec2Model ----
(***************************************************************************)
(* A model of the todo application: the storage layer of src/lib/db.ts     *)
(* (schema migration, list, insert, status update over one SQLite table)   *)
(* and the TodoList screen that drives it, in the two revisions the        *)
(* repository holds (src/app/index.tsx and src/unnamed/part_001).          *)
(*                                                                         *)
(* A statement handed to the database is executed by the native side at    *)
(* some later step; the JavaScript that awaits it goes on in that step or  *)
(* a later one.  A statement whose promise nobody awaits (the script of    *)
(* initializeDB) is executed at any later step, whatever its caller does.  *)
(***************************************************************************)
EXTENDS Integers, Sequences, FiniteSets, TLC

VARIABLES
    db,         \* the persisted store: user_version, whether todos exists, its rows
    clock,      \* the device clock as new Date() last read it
    mig,        \* the current migrateDB call: position, its local currentDbVersion,
                \* which call it is and how the call before it ended
    scripts,    \* initializeDB scripts handed to the database and not yet executed
    lastOp,     \* the last statement the database executed for migrateDB, for
                \* initializeDB or for a direct caller, and how it ended
    rev,        \* which revision of the screen runs: index.tsx or part_001
    mounted,    \* TodoList is mounted (SQLiteProvider finished onInit)
    todos,      \* TodoList's state `todos`
    currentFilter, \* TodoList's state `currentFilter`
    load,       \* the mount effect's load(): position and fetched rows
    handlers,   \* addTodo / toggleTodo calls in flight, oldest first
    presses     \* how many times the user has submitted a text or pressed a toggle

vars == <<db, clock, mig, scripts, lastOp,
          rev, mounted, todos, currentFilter, load, handlers, presses>>

(***************************************************************************)
(* Bounds of the model.                                                    *)
(***************************************************************************)
\* uuids are 1..MaxIds
MaxIds == 4
\* the latest instant the device clock shows
MaxClock == 4
\* migrateDB is called at most this many times
MaxMigrations == 2
\* addTodo / toggleTodo calls in flight at once
MaxHandlers == 2
\* texts submitted and toggles pressed in one run
MaxPresses == 2

(***************************************************************************)
(* Values.                                                                 *)
(***************************************************************************)
DATABASE_VERSION == 1

NoRows == << >>

\* Instants are whole days counted from 2022-12-31.
\* Date.prototype.toISOString: the instant written as fixed-width fields, high field first.
ToISOString(t) == <<t \div 4, t % 4>>

\* new Date(isoString).getTime(): the instant read back from the fields.
DateGetTime(s) == s[1] * 4 + s[2]

\* The three rows the initializeDB script inserts, with the uuids drawn for them.
SeedRows(ids) ==
    << [id |-> ids[1], text |-> <<"S", "1">>, status |-> "pending", createdAt |-> <<0, 1>>],
       [id |-> ids[2], text |-> <<"S", "2">>, status |-> "done",    createdAt |-> <<0, 2>>],
       [id |-> ids[3], text |-> <<"S", "3">>, status |-> "done",    createdAt |-> <<0, 3>>] >>

\* The device clock starts after the dates written into the seed rows.
ClockStart == DateGetTime(SeedRows(<<0, 0, 0>>)[3].createdAt) + 1

SeedTexts == {SeedRows(<<0, 0, 0>>)[k].text : k \in 1..3}

\* Texts a caller passes: a blank and a word.
InputTexts == {<<" ">>, <<"m">>}

Statuses == {"pending", "done"}
Filters == {"all", "pending", "done"}

RowIds(rows) == {rows[i].id : i \in DOMAIN rows}

SeedRowCount(rows) == Cardinality({i \in DOMAIN rows : rows[i].text \in SeedTexts})

(***************************************************************************)
(* The database: one statement at a time.  Each operator gives the store   *)
(* after the statement and the error it raised ("none" when it ran).       *)
(***************************************************************************)
Ran(d) == [db |-> d, err |-> "none"]
Failed(d, e) == [db |-> d, err |-> e]

\* CREATE TABLE IF NOT EXISTS todos (id TEXT PRIMARY KEY, ...)
CreateTable(d) == Ran([d EXCEPT !.exists = TRUE])

\* INSERT into a table declared without PRIMARY KEY: any id is taken
InsertRowNoKey(d, row) ==
    IF ~d.exists THEN Failed(d, "no such table")
    ELSE Ran([d EXCEPT !.rows = Append(d.rows, row)])

\* INSERT INTO todos ...: id is the primary key
InsertRow(d, row) ==
    IF ~d.exists THEN Failed(d, "no such table")
    ELSE IF row.id \in RowIds(d.rows) THEN Failed(d, "constraint")
    ELSE Ran([d EXCEPT !.rows = Append(d.rows, row)])

\* UPDATE todos SET status = ? with the WHERE clause left out
UpdateRowsNoWhere(d, status, id) ==
    IF ~d.exists THEN Failed(d, "no such table")
    ELSE Ran([d EXCEPT !.rows = [i \in DOMAIN d.rows |->
                 [d.rows[i] EXCEPT !.status = status]]])

\* UPDATE todos SET status = ? WHERE id = ?
UpdateRows(d, status, id) ==
    IF ~d.exists THEN Failed(d, "no such table")
    ELSE Ran([d EXCEPT !.rows = [i \in DOMAIN d.rows |->
                 IF d.rows[i].id = id THEN [d.rows[i] EXCEPT !.status = status]
                 ELSE d.rows[i]]])

\* SELECT * FROM todos: the rows in storage order
SelectAll(d) ==
    IF ~d.exists THEN [rows |-> NoRows, err |-> "no such table"]
    ELSE [rows |-> d.rows, err |-> "none"]

\* The initializeDB script: PRAGMA journal_mode, CREATE TABLE, three INSERTs.
SeedScript(ids) ==
    << [kind |-> "pragma"], [kind |-> "create"] >>
    \o [k \in 1..3 |-> [kind |-> "insert", row |-> SeedRows(ids)[k]]]

ExecStatement(d, s) ==
    IF s.kind = "pragma" THEN Ran(d)
    ELSE IF s.kind = "create" THEN CreateTable(d)
    ELSE InsertRow(d, s.row)

\* execAsync runs the statements in order and stops at the first that fails; what
\* ran before it stays.  `budget` statements run before the store itself gives out.
RECURSIVE ExecScript(_, _, _)
ExecScript(d, stmts, budget) ==
    IF stmts = << >> THEN Ran(d)
    ELSE IF budget = 0 THEN Failed(d, "io")
    ELSE LET r == ExecStatement(d, Head(stmts))
         IN  IF r.err # "none" THEN r
             ELSE ExecScript(r.db, Tail(stmts), budget - 1)

(***************************************************************************)
(* The initial state: a fresh install, nothing called yet.                 *)
(***************************************************************************)
NoOp == [op |-> "none", by |-> "none", id |-> 0, status |-> "none", text |-> << >>,
         err |-> "none", call |-> 0]

NoLoad == [pc |-> "idle", rows |-> NoRows]

InitStore ==
    /\ db = [user_version |-> 0, exists |-> FALSE, rows |-> NoRows]
    /\ clock = ClockStart
    /\ mig = [pc |-> "idle", currentDbVersion |-> 0, call |-> 0, prior |-> "none"]
    /\ scripts = << >>
    /\ lastOp = NoOp

InitUI ==
    /\ mounted = FALSE
    /\ todos = NoRows
    /\ currentFilter = "all"
    /\ load = NoLoad
    /\ handlers = << >>
    /\ presses = 0

Init == InitStore /\ InitUI /\ rev = "index.tsx"

\* the same with the screen of src/unnamed/part_001
InitEarlier == InitStore /\ InitUI /\ rev = "part_001"

(***************************************************************************)
(* migrateDB and initializeDB (src/lib/db.ts).                             *)
(***************************************************************************)
Executed(op) == lastOp' = IF op.err = "none" THEN op
                           ELSE [NoOp EXCEPT !.op = op.op, !.by = op.by,
                                             !.err = op.err, !.call = op.call]

\* The uuids some row or some statement in flight holds.
InUse ==
    RowIds(db.rows)
    \cup UNION {{scripts[i].ids[k] : k \in 1..3} : i \in DOMAIN scripts}
    \cup {handlers[i].id : i \in {j \in DOMAIN handlers : handlers[j].kind = "addTodo"}}

\* crypto.randomUUID, given the uuids to tell apart: one of them (a collision), or a
\* uuid that is none of them; all such uuids behave alike, so one stands for them.
RandomUUID(used) ==
    LET free == (1..MaxIds) \ used
    IN  used \cup (IF free = {} THEN {}
                   ELSE {CHOOSE id \in free : \A other \in free : id >= other})

\* k calls of crypto.randomUUID in a row
RECURSIVE UUIDDraws(_, _)
UUIDDraws(used, k) ==
    IF k = 0 THEN {<< >>}
    ELSE UNION {{<<id>> \o rest : rest \in UUIDDraws(used \cup {id}, k - 1)} :
                id \in RandomUUID(used)}

\* initializeDB: three uuids, then execAsync(script) with nobody awaiting its promise
InitializeDB(ids) ==
    scripts' = Append(scripts, [ids |-> ids, call |-> mig.call])

\* migrateDB starts: it hands PRAGMA user_version to the database and awaits the row.
StartMigrate ==
    mig' = [pc |-> "getVersion", currentDbVersion |-> 0, call |-> mig.call + 1,
            prior |-> mig.pc]

\* A caller of the storage layer calls migrateDB, again once the call before has ended.
MigrateCall ==
    /\ mig.pc \in {"idle", "resolved", "rejected"}
    /\ mig.call < MaxMigrations
    /\ StartMigrate
    /\ UNCHANGED <<rev, db, clock, scripts, lastOp,
                   mounted, todos, currentFilter, load, handlers, presses>>

\* The application starts: SQLiteProvider opens todos.db and calls onInit = migrateDB, once.
OnInit ==
    /\ mig.pc = "idle"
    /\ StartMigrate
    /\ UNCHANGED <<rev, db, clock, scripts, lastOp,
                   mounted, todos, currentFilter, load, handlers, presses>>

\* The version row arrives: return when already at DATABASE_VERSION; at 0 start
\* initializeDB without awaiting it; then hand PRAGMA user_version = 1 to the database.
MigrateGetVersion ==
    /\ mig.pc = "getVersion"
    /\ \E io \in BOOLEAN :
         LET op == [NoOp EXCEPT !.op = "PRAGMA user_version", !.by = "migrateDB",
                                !.call = mig.call, !.err = IF io THEN "io" ELSE "none"]
             currentDbVersion == db.user_version
         IN  /\ Executed(op)
             /\ IF io
                THEN /\ mig' = [mig EXCEPT !.pc = "rejected"]
                     /\ UNCHANGED scripts
                ELSE IF currentDbVersion = DATABASE_VERSION
                THEN /\ mig' = [mig EXCEPT !.pc = "resolved",
                                           !.currentDbVersion = currentDbVersion]
                     /\ UNCHANGED scripts
                ELSE IF currentDbVersion = 0
                THEN /\ \E ids \in UUIDDraws(InUse, 3) : InitializeDB(ids)
                     /\ mig' = [mig EXCEPT !.pc = "setVersion", !.currentDbVersion = 1]
                ELSE /\ mig' = [mig EXCEPT !.pc = "setVersion",
                                           !.currentDbVersion = currentDbVersion]
                     /\ UNCHANGED scripts
    /\ UNCHANGED <<rev, db, clock, mounted, todos, currentFilter, load, handlers, presses>>

\* PRAGMA user_version = 1 is executed and migrateDB resolves, or it fails and
\* migrateDB rejects.
MigrateSetVersion ==
    /\ mig.pc = "setVersion"
    /\ \E io \in BOOLEAN :
         LET op == [NoOp EXCEPT !.op = "PRAGMA user_version =", !.by = "migrateDB",
                                !.call = mig.call, !.err = IF io THEN "io" ELSE "none"]
         IN  /\ Executed(op)
             /\ IF io
                THEN /\ mig' = [mig EXCEPT !.pc = "rejected"]
                     /\ UNCHANGED db
                ELSE /\ db' = [db EXCEPT !.user_version = DATABASE_VERSION]
                     /\ mig' = [mig EXCEPT !.pc = "resolved"]
    /\ UNCHANGED <<rev, clock, scripts,
                   mounted, todos, currentFilter, load, handlers, presses>>

RemoveAt(seq, i) == SubSeq(seq, 1, i - 1) \o SubSeq(seq, i + 1, Len(seq))

\* The database executes a script of initializeDB; its promise is dropped, so no
\* JavaScript runs on its outcome.
ExecSeedScript ==
    /\ \E i \in DOMAIN scripts :
         LET stmts == SeedScript(scripts[i].ids)
         IN  \E budget \in 0..Len(stmts) :
               LET r == ExecScript(db, stmts, budget)
               IN  /\ db' = r.db
                   /\ scripts' = RemoveAt(scripts, i)
                   /\ Executed([NoOp EXCEPT !.op = "script", !.by = "initializeDB",
                                            !.call = scripts[i].call, !.err = r.err])
    /\ UNCHANGED <<rev, clock, mig,
                   mounted, todos, currentFilter, load, handlers, presses>>

\* new Date(): the clock does not run backwards
Now == clock..MaxClock

(***************************************************************************)
(* getAllTodos, insertTodo, updateTodo (src/lib/db.ts), called one at a    *)
(* time by a component under SQLiteProvider, which renders its children    *)
(* once onInit has resolved.                                               *)
(***************************************************************************)
Provided == mig.pc = "resolved"

\* insertTodo binding 'done' in place of 'pending'
NewTodoDone(id, text, now) ==
    [id |-> id, text |-> text, status |-> "done", createdAt |-> ToISOString(now)]

\* The row insertTodo binds: a new uuid, the text, 'pending', the current instant
NewTodo(id, text, now) ==
    [id |-> id, text |-> text, status |-> "pending", createdAt |-> ToISOString(now)]

\* One awaited statement: the store gives out (io), or the statement decides.
Attempt(io, r) == IF io THEN Failed(db, "io") ELSE r

InsertTodo(text) ==
    /\ Provided
    /\ \E id \in RandomUUID(InUse), now \in Now, io \in BOOLEAN :
         LET row == NewTodo(id, text, now)
             r == Attempt(io, InsertRow(db, row))
         IN  /\ db' = r.db
             /\ clock' = now
             /\ Executed([NoOp EXCEPT !.op = "insertTodo", !.by = "caller", !.id = id,
                                      !.text = text, !.err = r.err])
    /\ UNCHANGED <<rev, mig, scripts,
                   mounted, todos, currentFilter, load, handlers, presses>>

UpdateTodo(status, id) ==
    /\ Provided
    /\ \E io \in BOOLEAN :
         LET r == Attempt(io, UpdateRows(db, status, id))
         IN  /\ db' = r.db
             /\ Executed([NoOp EXCEPT !.op = "updateTodo", !.by = "caller", !.id = id,
                                      !.status = status, !.err = r.err])
    /\ UNCHANGED <<rev, clock, mig, scripts,
                   mounted, todos, currentFilter, load, handlers, presses>>

GetAllTodos ==
    /\ Provided
    /\ \E io \in BOOLEAN :
         LET r == IF io THEN [rows |-> NoRows, err |-> "io"] ELSE SelectAll(db)
         IN  Executed([NoOp EXCEPT !.op = "getAllTodos", !.by = "caller", !.err = r.err])
    /\ UNCHANGED <<rev, db, clock, mig, scripts,
                   mounted, todos, currentFilter, load, handlers, presses>>

(***************************************************************************)
(* The TodoList screen (src/app/index.tsx, and src/unnamed/part_001 where  *)
(* that revision differs).                                                 *)
(***************************************************************************)
\* String.prototype.trim over the characters of the text
RECURSIVE TrimStart(_)
TrimStart(text) ==
    IF text # << >> /\ Head(text) = " " THEN TrimStart(Tail(text)) ELSE text

RECURSIVE TrimEnd(_)
TrimEnd(text) ==
    IF text # << >> /\ text[Len(text)] = " "
    THEN TrimEnd(SubSeq(text, 1, Len(text) - 1)) ELSE text

Trim(text) == TrimEnd(TrimStart(text))

\* todos.filter(...) under the current filter
FilteredTodos(list, filter) ==
    LET Keep(todo) == IF filter = "all" THEN TRUE
                      ELSE IF filter = "pending" THEN todo.status = "pending"
                      ELSE IF filter = "done" THEN todo.status = "done"
                      ELSE TRUE
    IN  SelectSeq(list, Keep)

\* The comparator of src/app/index.tsx: pending before done, then the later date first
CompareIndex(a, b) ==
    LET aDate == DateGetTime(a.createdAt)
        bDate == DateGetTime(b.createdAt)
    IN  IF a.status # b.status
        THEN (IF a.status = "pending" THEN -1 ELSE 1)
        ELSE bDate - aDate

\* s < t on date strings, which have one length
StringLess(s, t) ==
    \E k \in DOMAIN s : /\ s[k] < t[k]
                        /\ \A j \in 1..(k - 1) : s[j] = t[j]

\* The comparator of src/unnamed/part_001: bDate is read from a, not from b
ComparePart001(a, b) ==
    LET aDate == a.createdAt
        bDate == a.createdAt
    IN  IF a.status = b.status /\ aDate = bDate THEN 0
        ELSE IF a.status = "done" /\ StringLess(aDate, bDate) THEN 1
        ELSE -1

Comparator(a, b) ==
    IF rev = "index.tsx" THEN CompareIndex(a, b) ELSE ComparePart001(a, b)

\* Array.prototype.sort, a stable sort: each element is moved left past the elements
\* the comparator puts after it.
RECURSIVE InsertSorted(_, _)
InsertSorted(sorted, x) ==
    IF sorted # << >> /\ Comparator(sorted[Len(sorted)], x) > 0
    THEN Append(InsertSorted(SubSeq(sorted, 1, Len(sorted) - 1), x), sorted[Len(sorted)])
    ELSE Append(sorted, x)

RECURSIVE Sort(_)
Sort(list) ==
    IF list = << >> THEN << >>
    ELSE InsertSorted(Sort(SubSeq(list, 1, Len(list) - 1)), list[Len(list)])

\* What the FlatList shows
Displayed == Sort(FilteredTodos(todos, currentFilter))

\* The items that offer the toggle: every item shown (index.tsx, the swipe button);
\* the items shown that are not done (part_001, the "Concluir" button).
Toggleable ==
    {Displayed[i].id : i \in {j \in DOMAIN Displayed :
                                rev = "index.tsx" \/ Displayed[j].status # "done"}}

\* todos.find(t => t.id === id); the id of an item shown is the id of a loaded record
Find(list, id) == list[CHOOSE i \in DOMAIN list :
                         /\ list[i].id = id
                         /\ \A j \in 1..(i - 1) : list[j].id # id]

\* toggleTodo's newStatus in src/app/index.tsx: the opposite of the status of the
\* record it found in `todos`
NewStatusIndex(todo) == IF todo.status = "pending" THEN "done" ELSE "pending"

\* toggleTodo's newStatus in src/unnamed/part_001: decided by the filter
NewStatusPart001(filter) == IF filter = "pending" THEN "done" ELSE "pending"

NewStatus(id) ==
    IF rev = "index.tsx" THEN NewStatusIndex(Find(todos, id))
    ELSE NewStatusPart001(currentFilter)

NoHandler == [kind |-> "none", id |-> 0, text |-> << >>, status |-> "none",
              createdAt |-> << >>, inflight |-> {}, fetched |-> FALSE, rows |-> NoRows]

\* The handler with the await on its mutation left out: both statements go out at once
FirstHandedBoth == {"mutation", "getAllTodos"}

\* What addTodo / toggleTodo has handed to the database when it first suspends:
\* its mutation, which it awaits before anything else.
FirstHanded == {"mutation"}

\* What it hands over when the awaited mutation has resolved
HandedAfterMutation == {"getAllTodos"}

\* TodoList mounts and its effect calls load(), which awaits getAllTodos.
Mount ==
    /\ Provided
    /\ ~mounted
    /\ mounted' = TRUE
    /\ load' = [pc |-> "getAllTodos", rows |-> NoRows]
    /\ UNCHANGED <<rev, db, clock, mig, scripts, lastOp, todos, currentFilter, handlers, presses>>

\* load's getAllTodos is executed; load rejects (nothing catches it) when it fails
LoadGetAllTodos ==
    /\ load.pc = "getAllTodos"
    /\ LET r == SelectAll(db)
       IN  load' = IF r.err = "none" THEN [pc |-> "setTodos", rows |-> r.rows]
                   ELSE [pc |-> "rejected", rows |-> NoRows]
    /\ UNCHANGED <<rev, db, clock, mig, scripts, lastOp, mounted, todos, currentFilter,
                   handlers, presses>>

\* load goes on: setTodos(result)
LoadSetTodos ==
    /\ load.pc = "setTodos"
    /\ todos' = load.rows
    /\ load' = [pc |-> "done", rows |-> NoRows]
    /\ UNCHANGED <<rev, db, clock, mig, scripts, lastOp, mounted, currentFilter, handlers,
                   presses>>

\* A filter button is pressed.
SetCurrentFilter(filter) ==
    /\ mounted
    /\ currentFilter' = filter
    /\ UNCHANGED <<rev, db, clock, mig, scripts, lastOp, mounted, todos, load, handlers,
                   presses>>

\* The form is submitted with `text` in it: handlePress, and addTodo up to its first await.
HandlePress(text) ==
    /\ mounted
    /\ IF Len(Trim(text)) = 0
       THEN UNCHANGED <<handlers, presses, clock>>
       ELSE /\ Len(handlers) < MaxHandlers
            /\ presses < MaxPresses
            /\ presses' = presses + 1
            /\ \E id \in RandomUUID(InUse), now \in Now :
                 LET row == NewTodo(id, text, now)
                 IN  /\ clock' = now
                     /\ handlers' = Append(handlers,
                            [NoHandler EXCEPT !.kind = "addTodo", !.id = row.id,
                                              !.text = row.text, !.status = row.status,
                                              !.createdAt = row.createdAt,
                                              !.inflight = FirstHanded])
    /\ UNCHANGED <<rev, db, mig, scripts, lastOp, mounted, todos, currentFilter, load>>

\* An item's toggle is pressed: toggleTodo up to its first await.
ToggleTodo(id) ==
    /\ mounted
    /\ id \in Toggleable
    /\ Len(handlers) < MaxHandlers
    /\ presses < MaxPresses
    /\ presses' = presses + 1
    /\ handlers' = Append(handlers,
           [NoHandler EXCEPT !.kind = "toggleTodo", !.id = id, !.status = NewStatus(id),
                             !.inflight = FirstHanded])
    /\ UNCHANGED <<rev, db, clock, mig, scripts, lastOp, mounted, todos, currentFilter, load>>

\* The database executes a handler's insertTodo or updateTodo statement; the handler
\* goes on to getAllTodos, or rejects (nothing catches it) when the statement failed.
ExecMutation(i) ==
    /\ "mutation" \in handlers[i].inflight
    /\ LET h == handlers[i]
           r == IF h.kind = "addTodo"
                THEN InsertRow(db, [id |-> h.id, text |-> h.text, status |-> h.status,
                                    createdAt |-> h.createdAt])
                ELSE UpdateRows(db, h.status, h.id)
       IN  /\ db' = r.db
           /\ handlers' = IF r.err = "none"
                          THEN [handlers EXCEPT ![i].inflight =
                                   (@ \ {"mutation"}) \cup HandedAfterMutation]
                          ELSE RemoveAt(handlers, i)
    /\ UNCHANGED <<rev, clock, mig, scripts, lastOp, mounted, todos, currentFilter, load,
                   presses>>

\* The database executes a handler's getAllTodos.
ExecGetAllTodos(i) ==
    /\ "getAllTodos" \in handlers[i].inflight
    /\ LET r == SelectAll(db)
       IN  handlers' = IF r.err = "none"
                       THEN [handlers EXCEPT ![i].inflight = @ \ {"getAllTodos"},
                                             ![i].fetched = TRUE,
                                             ![i].rows = r.rows]
                       ELSE RemoveAt(handlers, i)
    /\ UNCHANGED <<rev, db, clock, mig, scripts, lastOp, mounted, todos, currentFilter,
                   load, presses>>

\* The handler goes on: setTodos(result), and it is finished.
SetTodos(i) ==
    /\ handlers[i].fetched
    /\ todos' = handlers[i].rows
    /\ handlers' = RemoveAt(handlers, i)
    /\ UNCHANGED <<rev, db, clock, mig, scripts, lastOp, mounted, currentFilter, load,
                   presses>>

NextApp ==
    \/ OnInit
    \/ MigrateGetVersion
    \/ MigrateSetVersion
    \/ ExecSeedScript
    \/ Mount
    \/ LoadGetAllTodos
    \/ LoadSetTodos
    \/ \E filter \in Filters : SetCurrentFilter(filter)
    \/ \E text \in InputTexts : HandlePress(text)
    \/ \E id \in 1..MaxIds : ToggleTodo(id)
    \/ \E i \in DOMAIN handlers : ExecMutation(i)
    \/ \E i \in DOMAIN handlers : ExecGetAllTodos(i)
    \/ \E i \in DOMAIN handlers : SetTodos(i)

\* the application of src/app/index.tsx from a fresh install
Spec == Init /\ [][NextApp]_vars

\* the application with the screen of src/unnamed/part_001
SpecEarlier == InitEarlier /\ [][NextApp]_vars

\* A later launch: the first one left the table, its three rows and user_version 1.
InitInstalled ==
    /\ LET ids == CHOOSE draw \in UUIDDraws({}, 3) :
                      Cardinality({draw[k] : k \in 1..3}) = 3
           stmts == SeedScript(ids)
       IN  db = ExecScript([user_version |-> DATABASE_VERSION, exists |-> FALSE,
                            rows |-> NoRows], stmts, Len(stmts)).db
    /\ clock = ClockStart
    /\ mig = [pc |-> "idle", currentDbVersion |-> 0, call |-> 0, prior |-> "none"]
    /\ scripts = << >>
    /\ lastOp = NoOp
    /\ InitUI
    /\ rev = "index.tsx"

NextInstalled ==
    \/ OnInit
    \/ MigrateGetVersion
    \/ Mount
    \/ LoadGetAllTodos
    \/ LoadSetTodos
    \/ \E filter \in Filters : SetCurrentFilter(filter)
    \/ \E text \in InputTexts : HandlePress(text)
    \/ \E id \in 1..MaxIds : ToggleTodo(id)
    \/ \E i \in DOMAIN handlers : ExecMutation(i)
    \/ \E i \in DOMAIN handlers : ExecGetAllTodos(i)
    \/ \E i \in DOMAIN handlers : SetTodos(i)

\* the application launched on the database an earlier launch installed
SpecInstalled == InitInstalled /\ [][NextInstalled]_vars

NextMigrate ==
    \/ MigrateCall
    \/ MigrateGetVersion
    \/ MigrateSetVersion
    \/ ExecSeedScript

\* migrateDB called again and again by a caller of the storage layer
SpecMigrate == Init /\ [][NextMigrate]_vars

NextStorage ==
    \/ OnInit
    \/ MigrateGetVersion
    \/ MigrateSetVersion
    \/ ExecSeedScript
    \/ \E text \in InputTexts : InsertTodo(text)
    \/ \E status \in Statuses, id \in 1..MaxIds : UpdateTodo(status, id)
    \/ GetAllTodos

\* the storage layer under SQLiteProvider, its operations called in any order
SpecStorage == Init /\ [][NextStorage]_vars

(***************************************************************************)
(* Properties.                                                             *)
(***************************************************************************)
StatusOf(d, id) == Find(d.rows, id).status

\* C1: when migrateDB is run twice in succession, the schema version and the number
\* of seed rows are after the second call what they were after the first: while a
\* call that follows a resolved call runs, neither changes.
C1_SecondMigrateChangesNothing ==
    [][(mig.prior = "resolved" /\ mig.pc \in {"getVersion", "setVersion"})
       => /\ db'.user_version = db.user_version
          /\ SeedRowCount(db'.rows) = SeedRowCount(db.rows)]_vars

\* C2: when migrateDB has resolved, the schema version is 1, the todos table exists
\* and no script of initializeDB from that call is still waiting to be executed.
C2_ResolvedMeansTableCreated ==
    mig.pc = "resolved"
    => /\ db.user_version = DATABASE_VERSION
       /\ db.exists
       /\ \A i \in DOMAIN scripts : scripts[i].call # mig.call

\* C3: a successful insertTodo(text) leaves what getAllTodos returns as it was, plus
\* one record: its id is none of the earlier ids, its text is the text given, its
\* status is pending and its createdAt reads as the instant of the insertion.
C3_InsertAddsOnePendingRecord ==
    [][(/\ lastOp'.op = "insertTodo"
        /\ lastOp'.err = "none"
        /\ (lastOp' # lastOp \/ db' # db))
       => LET before == SelectAll(db).rows
              after == SelectAll(db').rows
          IN  /\ SelectAll(db).err = "none"
              /\ SelectAll(db').err = "none"
              /\ Len(after) = Len(before) + 1
              /\ SubSeq(after, 1, Len(before)) = before
              /\ after[Len(after)].id \notin RowIds(before)
              /\ after[Len(after)].text = lastOp'.text
              /\ after[Len(after)].status = "pending"
              /\ DateGetTime(after[Len(after)].createdAt) = clock']_vars

\* C3's case: an insert has succeeded on a store that already held records.
C3_Witness ==
    /\ lastOp.op = "insertTodo"
    /\ lastOp.err = "none"
    /\ Len(db.rows) >= 2
    /\ db.rows[Len(db.rows)].id = lastOp.id
    /\ db.rows[Len(db.rows)].text = <<"m">>

\* C4: updateTodo(status, id) that the store executes gives the row with that id the
\* status and changes nothing else: every row keeps id, text and createdAt, every other
\* row keeps its status, no row is added or removed; with no such row it raises no
\* error and changes nothing; when it fails nothing is changed.
C4_UpdateTouchesOneStatus ==
    [][(/\ lastOp'.op = "updateTodo"
        /\ (lastOp' # lastOp \/ db' # db))
       => /\ (db.exists /\ lastOp'.err # "io") => lastOp'.err = "none"
          /\ lastOp'.err # "none" => db' = db
          /\ lastOp'.err = "none" =>
               /\ db'.user_version = db.user_version
               /\ db'.exists = db.exists
               /\ Len(db'.rows) = Len(db.rows)
               /\ \A i \in DOMAIN db.rows :
                    /\ db'.rows[i].id = db.rows[i].id
                    /\ db'.rows[i].text = db.rows[i].text
                    /\ db'.rows[i].createdAt = db.rows[i].createdAt
                    /\ db'.rows[i].status = IF db.rows[i].id = lastOp'.id
                                            THEN lastOp'.status
                                            ELSE db.rows[i].status]_vars

\* C4's case: an update has been executed on a table of several rows with different
\* statuses, one of which has the id.
C4_Witness ==
    /\ lastOp.op = "updateTodo"
    /\ lastOp.err = "none"
    /\ lastOp.id \in RowIds(db.rows)
    /\ StatusOf(db, lastOp.id) = lastOp.status
    /\ \E i \in DOMAIN db.rows : db.rows[i].status # lastOp.status

\* C4's other case: an update naming no row has been executed without error on a table
\* that has rows.
C4_WitnessNoSuchRow ==
    /\ lastOp.op = "updateTodo"
    /\ lastOp.err = "none"
    /\ db.rows # << >>
    /\ lastOp.id \notin RowIds(db.rows)

\* C5: a record in the todos table is in it at every later time with the same id, text
\* and createdAt, and no two records share an id.
C5_RecordsStayAndIdsAreUnique ==
    [][/\ \A i \in DOMAIN db.rows : \E j \in DOMAIN db'.rows :
             /\ db'.rows[j].id = db.rows[i].id
             /\ db'.rows[j].text = db.rows[i].text
             /\ db'.rows[j].createdAt = db.rows[i].createdAt
       /\ Cardinality(RowIds(db'.rows)) = Len(db'.rows)]_vars

\* C5's case: seed rows and an inserted row are in the table, the inserted row's status
\* has been changed since, and an insert has just failed on an id already taken.
C5_Witness ==
    /\ SeedRowCount(db.rows) >= 1
    /\ \E i \in DOMAIN db.rows : /\ db.rows[i].text \notin SeedTexts
                                 /\ db.rows[i].status = "done"
    /\ lastOp.op = "insertTodo"
    /\ lastOp.err = "constraint"

\* C6: when the script initializeDB issued for a migrateDB call has failed, that call
\* has not resolved and the schema version has not been advanced to 1.
C6_SeedFailureFailsMigrate ==
    (lastOp.op = "script" /\ lastOp.err # "none" /\ lastOp.call = mig.call)
    => /\ mig.pc # "resolved"
       /\ db.user_version # DATABASE_VERSION

\* C7: when the updateTodo of a toggle is executed, the record's status in the table
\* becomes the opposite of what it was.
C7_ToggleFlipsStatus ==
    [][\A i \in DOMAIN handlers :
         (/\ handlers[i].kind = "toggleTodo"
          /\ "mutation" \in handlers[i].inflight
          /\ Len(handlers') = Len(handlers)
          /\ "mutation" \notin handlers'[i].inflight)
         => StatusOf(db', handlers[i].id) # StatusOf(db, handlers[i].id)]_vars

\* C8 as stated: at most one add or toggle handler is between the start of its mutation
\* and the end of its reload.
C8_OneHandlerAtATime == Len(handlers) <= 1

\* C8 as amended: no handler has two statements in flight; its getAllTodos is handed to
\* the store, and comes back, only when its own mutation is no longer in flight.
C8_OneStatementPerHandler ==
    \A i \in DOMAIN handlers :
        /\ Cardinality(handlers[i].inflight) <= 1
        /\ ("getAllTodos" \in handlers[i].inflight \/ handlers[i].fetched)
           => "mutation" \notin handlers[i].inflight

\* C8's case: two handlers are in flight, the older one reloading while the mutation of
\* the newer one is still with the store.
C8_Witness ==
    /\ Len(handlers) = 2
    /\ handlers[1].inflight = {"getAllTodos"}
    /\ handlers[2].inflight = {"mutation"}

\* C9: when TodoList has mounted and neither load nor a handler is in flight, `todos`
\* is what the todos table holds.
C9_TodosEqualTableWhenIdle ==
    (mounted /\ load.pc \in {"done", "rejected"} /\ handlers = << >>)
    => todos = db.rows

\* C10: the list shown holds exactly the loaded records the filter keeps, every pending
\* record before every done record, and records of one status newest first.
C10_DisplayedFilteredAndOrdered ==
    /\ Len(Displayed) = Len(FilteredTodos(todos, currentFilter))
    /\ {Displayed[i] : i \in DOMAIN Displayed}
         = {todos[i] : i \in {j \in DOMAIN todos :
                                 currentFilter = "all" \/ todos[j].status = currentFilter}}
    /\ \A i, j \in DOMAIN Displayed :
         i < j => /\ ~(Displayed[i].status = "done" /\ Displayed[j].status = "pending")
                  /\ Displayed[i].status = Displayed[j].status
                     => DateGetTime(Displayed[i].createdAt)
                          >= DateGetTime(Displayed[j].createdAt)


====
